---- MODULE Spec2Model ----
(***************************************************************************)
(* Prospect outreach batch job (processProspects): the prospect store, the *)
(* four phases of one invocation (Enrichment, Content Generation, Initial  *)
(* Send, Follow-up) and the follow-up scheduler, as a state machine.       *)
(*                                                                         *)
(* Time is counted in whole days.  A timestamp of 0 stands for an absent   *)
(* timestamp field.  A field Firestore may lack holds the string           *)
(* "undefined" when it is absent; booleans that may be absent are the      *)
(* strings "true" / "false" / "undefined".                                 *)
(***************************************************************************)
EXTENDS Integers, Sequences, FiniteSets, TLC

\* ------------------------------------------------------------ bounds

\* Number of prospect documents in the collection.
NumRecords == 2
\* Last day the clock reaches.
MaxDay == 6

Ids == 1..NumRecords

\* ------------------------------------------------- config.js: limits

MAX_PROSPECTS_TO_ENRICH_PER_RUN == 2
MAX_INITIAL_EMAILS_PER_RUN == 25
MAX_FOLLOWUP_EMAILS_PER_RUN == 75
MAX_AI_EMAILS_PER_RUN == 15
\* Over-fetch factor of the follow-up candidate query.
FOLLOWUP_OVERFETCH == 5
\* Minimum body length the initial phase accepts for AI content.
MIN_AI_BODY_LENGTH == 50

\* ----------------------------------------------- config.js: statuses

Undefined == "undefined"

EMAIL_STATUS ==
  [PENDING |-> "pending", VERIFIED |-> "verified", FAILED |-> "lookup_failed",
   PROCESSING |-> "enrichment_inprogress"]

OUTREACH_STATUS ==
  [PENDING_UPLOAD |-> "pending_upload",
   ENRICHMENT_FAILED |-> "enrichment_failed",
   SEQUENCE_STARTED |-> "sequence_started",
   FOLLOWUP_1 |-> "followup_1",
   FOLLOWUP_2 |-> "followup_2",
   MOVED_TO_LEADS |-> "move_to_leads",
   REPLIED_POSITIVE |-> "replied_positive",
   REPLIED_NEGATIVE |-> "replied_negative",
   MEETING_BOOKED |-> "meeting_booked",
   UNSUBSCRIBED |-> "unsubscribed",
   DO_NOT_CONTACT |-> "do_not_contact"]

\* Statuses only an external actor (reply handling, unsubscribe) sets.
ManualStatuses ==
  {OUTREACH_STATUS.REPLIED_POSITIVE, OUTREACH_STATUS.REPLIED_NEGATIVE,
   OUTREACH_STATUS.MEETING_BOOKED, OUTREACH_STATUS.UNSUBSCRIBED,
   OUTREACH_STATUS.DO_NOT_CONTACT}

\* Interval table, in days, keyed by the current status.
FOLLOWUP_INTERVALS_DAYS ==
  (OUTREACH_STATUS.SEQUENCE_STARTED :> 2) @@ (OUTREACH_STATUS.FOLLOWUP_1 :> 3)

\* Object.keys(FOLLOWUP_INTERVALS_DAYS)
followupEligibleStatuses == DOMAIN FOLLOWUP_INTERVALS_DAYS

\* getFollowupDueDate: 0 stands for the null result.
getFollowupDueDate(lastContactedTimestamp, currentOutreachStatus) ==
  IF lastContactedTimestamp = 0
       \/ currentOutreachStatus \notin DOMAIN FOLLOWUP_INTERVALS_DAYS
       \/ FOLLOWUP_INTERVALS_DAYS[currentOutreachStatus] = 0
  THEN 0
  ELSE lastContactedTimestamp + FOLLOWUP_INTERVALS_DAYS[currentOutreachStatus]

\* ------------------------------------------ config.js: template resolver

Null == "null"

\* String.prototype.toLowerCase on the language and country values the model
\* uses.
toLowerCase(str) ==
  CASE str = "EN" -> "en"
    [] str = "FR" -> "fr"
    [] str = "Fr" -> "fr"
    [] str = "French" -> "french"
    [] str = "France" -> "france"
    [] str = "Belgium" -> "belgium"
    [] str = "Belgique" -> "belgique"
    [] str = "Canada" -> "canada"
    [] str = "Switzerland" -> "switzerland"
    [] str = "Suisse" -> "suisse"
    [] str = "Swiss" -> "swiss"
    [] str = "Germany" -> "germany"
    [] str = "United States" -> "united states"
    [] str = "Atlantis" -> "atlantis"
    [] OTHER -> str

\* i18n-iso-countries getAlpha2Code(name, "en") on the names the model uses.
Alpha2En(name) ==
  CASE name = "United States" -> "US"
    [] name = "Canada" -> "CA"
    [] name = "France" -> "FR"
    [] name = "Belgium" -> "BE"
    [] name = "Switzerland" -> "CH"
    [] name = "Germany" -> "DE"
    [] OTHER -> Undefined

\* i18n-iso-countries getAlpha2Code(name, "fr").
Alpha2Fr(name) ==
  CASE name = "Canada" -> "CA"
    [] name = "France" -> "FR"
    [] name = "Belgique" -> "BE"
    [] name = "Suisse" -> "CH"
    [] name = "Allemagne" -> "DE"
    [] OTHER -> Undefined

\* getCountryISO2Code: Null for a non-string, an empty or an unknown name.
getCountryISO2Code(countryName) ==
  IF countryName = Undefined \/ countryName = ""
  THEN Null
  ELSE LET isoCode == IF Alpha2En(countryName) # Undefined
                      THEN Alpha2En(countryName)
                      ELSE Alpha2Fr(countryName)
       IN  IF isoCode = Undefined THEN Null ELSE isoCode

\* The locale keys of TEMPLATE_IDS[emailType]; a key lang_region is the pair
\* <<lang, region>>.
TemplateKeys ==
  {<<"en", "US">>, <<"en", "CA">>, <<"fr", "CA">>, <<"fr", "FR">>,
   <<"fr", "BE">>, <<"fr", "CH">>, <<"fr", "general">>, <<"en", "general">>}

EmailTypes == {"initial", "followup"}

\* TEMPLATE_IDS: the template id configured under emailType for a key, the
\* default id being marketing_outreach_{type}_{lang}_{region}.
TEMPLATE_IDS ==
  [emailType \in EmailTypes |->
     [key \in TemplateKeys |-> <<"marketing_outreach", emailType, key[1], key[2]>>]]

\* The null template id.
NoTemplate == <<Null>>

\* The resolver without its second lookup: specific locale, then null.
determineTemplateId_NoGeneral(prospectData, emailType) ==
  LET lang == IF prospectData.language = Undefined
                 \/ toLowerCase(prospectData.language) = ""
              THEN "en"
              ELSE toLowerCase(prospectData.language)
      country == IF getCountryISO2Code(prospectData.country) = Null
                 THEN "GENERAL"
                 ELSE getCountryISO2Code(prospectData.country)
      key == <<lang, country>>
  IN  IF emailType \notin DOMAIN TEMPLATE_IDS
      THEN NoTemplate
      ELSE LET templateSet == TEMPLATE_IDS[emailType]
           IN  IF key \in DOMAIN templateSet THEN templateSet[key]
               ELSE NoTemplate

determineTemplateId(prospectData, emailType) ==
  LET lang == IF prospectData.language = Undefined
                 \/ toLowerCase(prospectData.language) = ""
              THEN "en"
              ELSE toLowerCase(prospectData.language)
      country == IF getCountryISO2Code(prospectData.country) = Null
                 THEN "GENERAL"
                 ELSE getCountryISO2Code(prospectData.country)
      key == <<lang, country>>
      generalKey == <<lang, "general">>
  IN  IF emailType \notin DOMAIN TEMPLATE_IDS
      THEN NoTemplate
      ELSE LET templateSet == TEMPLATE_IDS[emailType]
           IN  IF key \in DOMAIN templateSet THEN templateSet[key]
               ELSE IF generalKey \in DOMAIN templateSet THEN templateSet[generalKey]
               ELSE NoTemplate

\* ------------------------------------------------------ prospect documents

\* aiInitialEmail absent.
NoAiEmail == [present |-> FALSE, subject |-> "", bodyLength |-> 0]

\* personal_emails: absent (defined = FALSE) or a list whose first entry is
\* `first` ("" for an empty list or the empty string enrichment stores).
NoPersonalEmails == [defined |-> FALSE, first |-> ""]
EmptyPersonalEmails == [defined |-> TRUE, first |-> ""]

\* An uploaded, enriched prospect that was never AI-processed: the template
\* strategy applies to it.  A document of the model holds the fields that a
\* query or a phase reads; the fields the job only writes
\* (lastModifiedTimestamp, enrichmentTimestamp, aiGenerationTimestamp,
\* aiGenerationError) are part of the update payloads and of the writes the
\* history records, not of the stored document.
BaseDoc ==
  [outreachStatus |-> OUTREACH_STATUS.PENDING_UPLOAD,
   outreachStatusMessage |-> Undefined,
   enrichmentSuccess |-> "true",
   linkedinUrlFound |-> "true",
   linkedinUrl |-> "https://linkedin.example/in/p",
   emailStatus |-> EMAIL_STATUS.VERIFIED,
   lastContactedTimestamp |-> 0,
   followupNotNeeded |-> "false",
   workEmail |-> "work@corp.example",
   email |-> "",
   personalEmail |-> "",
   personal_emails |-> EmptyPersonalEmails,
   language |-> "en",
   country |-> "United States",
   firstName |-> "Ann",
   jobTitle |-> "HR Manager",
   companyName |-> "Corp",
   aiInitialEmailTemplate |-> Undefined,
   aiInitialEmail |-> NoAiEmail]

\* The documents an upload creates, one per case the phases distinguish.
Profiles ==
  { BaseDoc,
    \* AI content already generated and flagged usable
    [BaseDoc EXCEPT !.aiInitialEmailTemplate = "true",
                    !.aiInitialEmail = [present |-> TRUE, subject |-> "Hiring faster",
                                        bodyLength |-> 60]],
    \* a language no template is configured for
    [BaseDoc EXCEPT !.language = "de", !.country = "Germany"],
    \* no email candidate at all and no personal_emails field
    [BaseDoc EXCEPT !.workEmail = "", !.personal_emails = NoPersonalEmails],
    \* not enriched yet, not AI-processed yet
    [BaseDoc EXCEPT !.enrichmentSuccess = "false", !.emailStatus = EMAIL_STATUS.PENDING,
                    !.workEmail = "", !.aiInitialEmailTemplate = "false"],
    \* the followupNotNeeded field was never written
    [BaseDoc EXCEPT !.followupNotNeeded = Undefined, !.language = "FR",
                    !.country = "Suisse"] }

\* The documents the runs with the external actor start from.
ExternalProfiles ==
  { BaseDoc,
    [BaseDoc EXCEPT !.enrichmentSuccess = "false", !.emailStatus = EMAIL_STATUS.PENDING,
                    !.workEmail = "", !.aiInitialEmailTemplate = "false"] }

\* { id: prospectId, ...doc.data() }
ProspectData(prospectId, data) == [id |-> prospectId] @@ data

\* JavaScript falsiness of a string-valued field.
Falsy(v) == v = Undefined \/ v = "" \/ v = Null

\* Outcome of prospectData.workEmail || prospectData.email ||
\* prospectData.personalEmail || prospectData.personal_emails[0]:
\* the address, "" when every candidate is empty, or the TypeError raised
\* by indexing an absent personal_emails.
TypeError == "TypeError"
recipientEmail(prospectData) ==
  IF ~Falsy(prospectData.workEmail) THEN prospectData.workEmail
  ELSE IF ~Falsy(prospectData.email) THEN prospectData.email
  ELSE IF ~Falsy(prospectData.personalEmail) THEN prospectData.personalEmail
  ELSE IF ~prospectData.personal_emails.defined THEN TypeError
  ELSE prospectData.personal_emails.first

\* ------------------------------------------------------------- state

VARIABLES
  store,          \* the prospects collection: document id -> document data
  clock,          \* admin.firestore.Timestamp.now(), in days
  isInitialized,  \* index.js module flag
  pc,             \* "idle" or the phase the invocation is in
  batch,          \* snapshot.docs of the running phase, as prospectData
  idx,            \* position of the for loop in batch
  now,            \* `now` of handleFollowupEmails, taken before its loop
  stats,          \* the two counters of the running phase (processedCount /
                  \* successCount, generatedCount / errorCount, sentCount /
                  \* errorCount)
  response,       \* the HTTP response just sent: status (0: none), message,
                  \* and the statistics the summary reports
  done,           \* the statistics the phases of this invocation returned
  env,            \* process.env: which credentials and settings are set
  sg,             \* one call of the delivery client (sendgridHelper)
  defaultApp,     \* firebase-admin: the default app exists in this process
  other,          \* a second invocation that overlaps the first: its
                  \* position, its snapshot.docs, its loop index and the
                  \* records it has delivered an email to
  log,            \* the deliveries of this invocation (history): the emails
                  \* sent to each record, and the delivery calls the
                  \* running phase has issued
  ev              \* what the last step did (history)

vars ==
  <<store, clock, isInitialized, pc, batch, idx, now, stats, response, done,
    env, sg, defaultApp, other, log, ev>>

\* The variables of the job, which the delivery client leaves alone.
jobVars ==
  <<store, clock, isInitialized, pc, batch, idx, now, stats, response, done,
    defaultApp, other, log, ev>>

Phases == {"enrich", "ai", "initial", "followup"}

ZeroStats == [a |-> 0, b |-> 0]

NoResponse == [status |-> 0, message |-> "", summary |-> <<>>]

\* process.env with every credential and setting present.
FullEnv ==
  [SENDGRID_API_KEY_PATH |-> TRUE, SENDGRID_FROM_EMAIL |-> TRUE,
   PROXYCURL_API_KEY_PATH |-> TRUE]

\* No call of the delivery client is under way.
NoSend ==
  [mode |-> "none", state |-> "idle", retryCount |-> 0, attempts |-> 0,
   last |-> 0, delays |-> <<>>]

\* No second invocation is under way.
NoOther == [pc |-> "idle", batch |-> <<>>, idx |-> 1, sent |-> {}]

\* No delivery yet in this invocation.
NoLog == [sent |-> [i \in DOMAIN store |-> 0], calls |-> 0]

\* The log after a loop iteration with outcome `out` on record prospectId.
Logged(prospectId, out) ==
  [sent |-> [log.sent EXCEPT ![prospectId] =
                               @ + (IF out.call = "ok" THEN 1 ELSE 0)],
   calls |-> log.calls + (IF out.call # "none" THEN 1 ELSE 0)]

\* No update payload.
NoPayload == [f \in {} |-> Undefined]

NoDoc == ProspectData(0, BaseDoc)

\* What a loop iteration did: the update it issued (payload), the delivery
\* call it made (call: "none", "ok" or "fail"; mode; templateId), the
\* counter increments, whether an exception left the loop (abort), and what
\* the enrichment provider answered (answer).
NoOutcome ==
  [kind |-> "none", payload |-> NoPayload, call |-> "none", mode |-> "none",
   templateId |-> NoTemplate, a |-> 0, b |-> 0, abort |-> FALSE,
   due |-> FALSE, nextStatus |-> Null, answer |-> "none"]

NoEvent ==
  [op |-> "none", doc |-> NoDoc, preDoc |-> NoDoc,
   out |-> NoOutcome, applied |-> FALSE, written |-> NoPayload,
   before |-> ZeroStats]

\* ---------------------------------------- firestoreHelper: updateProspect

\* The merge with the status of the stored document kept.
Merge_KeepStatus(data, updateData) ==
  [f \in DOMAIN data |-> IF f \in DOMAIN updateData /\ f # "outreachStatus"
                         THEN updateData[f] ELSE data[f]]

Merge(data, updateData) ==
  [f \in DOMAIN data |-> IF f \in DOMAIN updateData THEN updateData[f] ELSE data[f]]

\* The argument of the update without the modification time.
UpdateArgument_NoStamp(prospectId, updateData) ==
  IF prospectId = 0 \/ DOMAIN updateData = {}
  THEN NoPayload
  ELSE updateData

\* The argument of prospectRef.update(...) in updateProspect:
\* {...updateData, lastModifiedTimestamp: now}; no call for an empty payload
\* or a missing id.
UpdateArgument(prospectId, updateData) ==
  IF prospectId = 0 \/ DOMAIN updateData = {}
  THEN NoPayload
  ELSE [lastModifiedTimestamp |-> clock] @@ updateData

\* The update stored whatever Firestore answers.
updateProspect_Unchecked(st, prospectId, updateData, writeOK) ==
  IF DOMAIN UpdateArgument(prospectId, updateData) = {}
  THEN st
  ELSE [st EXCEPT ![prospectId] = Merge(@, UpdateArgument(prospectId, updateData))]

\* updateProspect(prospectId, updateData, db, logger): no write for an empty
\* payload; otherwise one update that also stamps lastModifiedTimestamp.
\* writeOK = FALSE is a Firestore error, which the helper logs and swallows.
updateProspect(st, prospectId, updateData, writeOK) ==
  IF DOMAIN UpdateArgument(prospectId, updateData) = {}
  THEN st
  ELSE IF ~writeOK
  THEN st
  ELSE [st EXCEPT ![prospectId] = Merge(@, UpdateArgument(prospectId, updateData))]

\* ------------------------------------------------------ store queries

RECURSIVE SetToSeq(_)
SetToSeq(S) ==
  IF S = {} THEN <<>>
  ELSE LET m == CHOOSE x \in S : \A y \in S : x <= y
       IN  <<m>> \o SetToSeq(S \ {m})

Min(x, y) == IF x <= y THEN x ELSE y

\* The query without its limit: every matching document.
QueryDocs_Unlimited(matching, limit) ==
  LET ids == SetToSeq(matching)
  IN  [i \in 1..Len(ids) |-> ProspectData(ids[i], store[ids[i]])]

\* query.limit(n).get(): the first n matching documents, in document order.
QueryDocs(matching, limit) ==
  LET ids == SetToSeq(matching)
  IN  [i \in 1..Min(Len(ids), limit) |-> ProspectData(ids[i], store[ids[i]])]

\* where(field, "!=", true): the field exists and is not true.
NotEqualTrue(v) == v # Undefined /\ v # "true"

prospectsToEnrichQuery ==
  QueryDocs({i \in DOMAIN store : /\ NotEqualTrue(store[i].enrichmentSuccess)
                         /\ store[i].linkedinUrlFound = "true"},
            MAX_PROSPECTS_TO_ENRICH_PER_RUN)

prospectsToGenerateQuery ==
  QueryDocs({i \in DOMAIN store : /\ store[i].enrichmentSuccess = "true"
                         /\ NotEqualTrue(store[i].aiInitialEmailTemplate)
                         /\ store[i].outreachStatus = OUTREACH_STATUS.PENDING_UPLOAD},
            MAX_AI_EMAILS_PER_RUN)

\* The initial-email query without its outreachStatus condition.
prospectsToSendQuery_AnyStatus ==
  QueryDocs({i \in DOMAIN store : store[i].enrichmentSuccess = "true"},
            MAX_INITIAL_EMAILS_PER_RUN)

\* The initial-email query without its enrichmentSuccess condition.
prospectsToSendQuery_NotEnriched ==
  QueryDocs({i \in DOMAIN store : store[i].outreachStatus = OUTREACH_STATUS.PENDING_UPLOAD},
            MAX_INITIAL_EMAILS_PER_RUN)

prospectsToSendQuery ==
  QueryDocs({i \in DOMAIN store : /\ store[i].enrichmentSuccess = "true"
                         /\ store[i].outreachStatus = OUTREACH_STATUS.PENDING_UPLOAD},
            MAX_INITIAL_EMAILS_PER_RUN)

prospectsToCheckQuery ==
  QueryDocs({i \in DOMAIN store : /\ store[i].outreachStatus \in followupEligibleStatuses
                         /\ NotEqualTrue(store[i].followupNotNeeded)},
            MAX_FOLLOWUP_EMAILS_PER_RUN * FOLLOWUP_OVERFETCH)

\* ------------------------------------- proxycurlHelper: Enrichment Client

\* What the provider answers to one enrichment call.
\* What the enrichment provider can answer to one call; without the API key
\* the helper returns before calling it.
EnrichResults ==
  IF env.PROXYCURL_API_KEY_PATH
  THEN {"verified", "unverified", "not_found", "api_error", "email_error"}
  ELSE {"missing_key"}

KeepOrEmpty(v) == IF Falsy(v) THEN "" ELSE v

\* The helper with the profile request not awaited: personResponse.data is
\* undefined, so every call ends as 'Profile not found'.
enrichProspectWithProxycurl_Unawaited(prospectData, result) ==
  [success |-> FALSE,
   updateData |-> [emailStatus |-> EMAIL_STATUS.FAILED,
                   enrichmentTimestamp |-> clock,
                   enrichmentSuccess |-> "false"]]

\* enrichProspectWithProxycurl(prospectData, logger): {success, updateData}.
\* The provider's profile carries no value for the fields the document
\* already holds, so personData.x || prospectData.x || "" keeps them.
enrichProspectWithProxycurl(prospectData, result) ==
  LET failure == [emailStatus |-> EMAIL_STATUS.FAILED,
                  enrichmentTimestamp |-> clock,
                  enrichmentSuccess |-> "false"]
      profile == [firstName |-> KeepOrEmpty(prospectData.firstName),
                  jobTitle |-> KeepOrEmpty(prospectData.jobTitle),
                  country |-> KeepOrEmpty(prospectData.country),
                  companyName |-> KeepOrEmpty(prospectData.companyName),
                  linkedinUrl |-> prospectData.linkedinUrl,
                  enrichmentSuccess |-> "true",
                  enrichmentTimestamp |-> clock]
  IN  IF \/ result = "missing_key"
         \/ Falsy(prospectData.linkedinUrl)
         \/ result \in {"not_found", "api_error"}
      THEN [success |-> FALSE, updateData |-> failure]
      ELSE IF result = "email_error"
      THEN \* the profile was mapped, then the e-mail lookup threw
           [success |-> FALSE, updateData |-> failure @@ profile]
      ELSE IF result = "verified"
      THEN [success |-> TRUE,
            updateData |-> profile @@ [workEmail |-> "verified@corp.example",
                                       emailStatus |-> EMAIL_STATUS.VERIFIED]]
      ELSE [success |-> TRUE,
            updateData |-> profile @@ [emailStatus |-> EMAIL_STATUS.FAILED]]

\* One iteration of the loop of handleEnrichment.
EnrichOutcome(prospectData, result) ==
  LET enrichmentResult == enrichProspectWithProxycurl(prospectData, result)
  IN  [NoOutcome EXCEPT !.kind = IF enrichmentResult.success THEN "enriched"
                                 ELSE "enrichment_failed",
                        !.payload = enrichmentResult.updateData,
                        !.answer = result,
                        !.a = 1,
                        !.b = IF enrichmentResult.success THEN 1 ELSE 0]

\* ------------------------------------------ handleAiInitialEmail

\* What the generator answers to one call: content, content without a
\* subject or body, a rejected call, a response without text, or text that
\* is not JSON.
GenResults == {"ok", "invalid", "error", "empty", "parse"}

\* aiError.message || "Unknown AI Error" in the catch of the generator
\* call: a response without text ends in the ReferenceError of the log
\* statement of that branch, unparsable text in the SyntaxError of
\* JSON.parse.
AiErrorMessage(gen) ==
  CASE gen = "empty" -> "result is not defined"
    [] gen = "parse" -> "Unexpected token"
    [] OTHER -> "Unknown AI Error"

AiFailure(message) ==
  [aiInitialEmailTemplate |-> "false",
   aiGenerationError |-> message,
   aiGenerationTimestamp |-> clock]

\* The check of the essential data without the country.
MissingEssentialData_NoCountry(prospectData) ==
  \/ Falsy(prospectData.firstName) \/ Falsy(prospectData.jobTitle)
  \/ Falsy(prospectData.companyName)

\* !prospectData.firstName || !prospectData.jobTitle ||
\* !prospectData.companyName || !prospectData.country
MissingEssentialData(prospectData) ==
  \/ Falsy(prospectData.firstName) \/ Falsy(prospectData.jobTitle)
  \/ Falsy(prospectData.companyName) \/ Falsy(prospectData.country)

\* One iteration of the loop of handleAiInitialEmail; out.answer is what
\* the generator answered, "none" when it was not called.
AiOutcome(prospectData, gen) ==
  IF MissingEssentialData(prospectData)
  THEN [NoOutcome EXCEPT !.kind = "missing_fields",
                         !.payload = AiFailure("Missing required fields for prompt"),
                         !.b = 1]
  ELSE IF prospectData.language = Undefined
  THEN \* buildVertexPrompt: prospectData.language.toLowerCase() throws
       [NoOutcome EXCEPT !.kind = TypeError, !.abort = TRUE]
  ELSE IF gen = "ok"
  THEN [NoOutcome EXCEPT !.kind = "generated",
                         !.payload =
                           [aiInitialEmail |-> [present |-> TRUE,
                                                subject |-> "Generated subject",
                                                bodyLength |-> 60],
                            aiInitialEmailTemplate |-> "true",
                            aiGenerationTimestamp |-> clock,
                            aiGenerationError |-> Undefined],
                         !.answer = gen,
                         !.a = 1]
  ELSE IF gen = "invalid"
  THEN [NoOutcome EXCEPT !.kind = "ai_invalid",
                         !.payload = AiFailure("AI response structure invalid"),
                         !.answer = gen,
                         !.b = 1]
  ELSE [NoOutcome EXCEPT !.kind = "ai_error",
                         !.payload = AiFailure(AiErrorMessage(gen)),
                         !.answer = gen,
                         !.b = 1]

\* ------------------------------------------------ handleInitialEmails

\* `let emailSubject, emailBody, templateId = null, sendMethod;` of the loop
\* body: the blocks below declare their own emailSubject and templateId, so
\* these outer variables keep their initial values.
outerEmailBody == Undefined
outerTemplateId == NoTemplate

\* The validation of the AI content: !emailSubject || !emailBody ||
\* emailBody.length < 50, emailSubject being the block's constant and
\* emailBody the loop body's variable.
AiContentInvalid(prospectData) ==
  \/ Falsy(prospectData.aiInitialEmail.subject)
  \/ Falsy(outerEmailBody)
  \/ prospectData.aiInitialEmail.bodyLength < MIN_AI_BODY_LENGTH

\* The catch block of the delivery call, with the status update the source
\* keeps commented out.
InitialSendFailed_Writes ==
  [NoOutcome EXCEPT !.kind = "send_failed", !.call = "fail", !.mode = "template",
                    !.templateId = outerTemplateId,
                    !.payload = [outreachStatus |-> "initial_send_failed"],
                    !.b = 1]

\* catch (emailError): the error is logged and counted, nothing is written.
InitialSendFailed ==
  [NoOutcome EXCEPT !.kind = "send_failed", !.call = "fail", !.mode = "template",
                    !.templateId = outerTemplateId, !.b = 1]

\* One iteration of the loop of handleInitialEmails; sendOK is the outcome
\* of the delivery call, if one is made.
InitialOutcome(prospectData, sendOK) ==
  LET recipient == recipientEmail(prospectData)
  IN  IF recipient = TypeError
      THEN [NoOutcome EXCEPT !.kind = TypeError, !.abort = TRUE]
      ELSE IF Falsy(recipient)
      THEN [NoOutcome EXCEPT !.kind = "no_recipient",
                             !.payload =
                               [outreachStatus |-> OUTREACH_STATUS.ENRICHMENT_FAILED,
                                outreachStatusMessage |-> "no email address"],
                             !.b = 1]
      ELSE IF prospectData.aiInitialEmailTemplate = "true"
              /\ prospectData.aiInitialEmail.present
      THEN IF AiContentInvalid(prospectData)
           THEN [NoOutcome EXCEPT !.kind = "ai_content_invalid",
                                  !.payload = [outreachStatus |-> "ai_content_invalid"],
                                  !.b = 1]
           ELSE \* sendRawEmail is not imported by index.js: the call raises a
                \* ReferenceError inside the try block, before any delivery
                [NoOutcome EXCEPT !.kind = "send_failed", !.mode = "raw", !.b = 1]
      ELSE IF determineTemplateId(prospectData, "initial") = NoTemplate
      THEN [NoOutcome EXCEPT !.kind = "template_missing",
                             !.payload = [outreachStatus |-> "template_missing"],
                             !.b = 1]
      ELSE IF sendOK
      THEN [NoOutcome EXCEPT !.kind = "sent", !.call = "ok", !.mode = "template",
                             !.templateId = outerTemplateId,
                             !.payload =
                               [outreachStatus |-> OUTREACH_STATUS.SEQUENCE_STARTED,
                                lastContactedTimestamp |-> clock],
                             !.a = 1]
      ELSE InitialSendFailed

\* ----------------------------------------------- handleFollowupEmails

\* The due test with a strict comparison.
IsDue_Strict(prospectData) ==
  LET dueDate == getFollowupDueDate(prospectData.lastContactedTimestamp,
                                    prospectData.outreachStatus)
  IN  dueDate # 0 /\ dueDate < now

\* The due test without the interval: due from the time of contact on.
IsDue_NoInterval(prospectData) ==
  /\ prospectData.lastContactedTimestamp # 0
  /\ prospectData.lastContactedTimestamp <= now

\* dueDate && dueDate <= now
IsDue(prospectData) ==
  LET dueDate == getFollowupDueDate(prospectData.lastContactedTimestamp,
                                    prospectData.outreachStatus)
  IN  dueDate # 0 /\ dueDate <= now

\* The chain with its first two targets exchanged for earlier statuses.
NextStatus_Backward(currentStatus) ==
  IF currentStatus = OUTREACH_STATUS.SEQUENCE_STARTED THEN OUTREACH_STATUS.PENDING_UPLOAD
  ELSE IF currentStatus = OUTREACH_STATUS.FOLLOWUP_1 THEN OUTREACH_STATUS.SEQUENCE_STARTED
  ELSE OUTREACH_STATUS.MOVED_TO_LEADS

\* The chain without its else-if: followup_1 keeps the initial null.
NextStatus_NoSecond(currentStatus) ==
  IF currentStatus = OUTREACH_STATUS.SEQUENCE_STARTED THEN OUTREACH_STATUS.FOLLOWUP_1
  ELSE IF currentStatus = OUTREACH_STATUS.FOLLOWUP_1 THEN Null
  ELSE OUTREACH_STATUS.MOVED_TO_LEADS

\* The next status of a due candidate (the if / else-if / else chain).
NextStatus(currentStatus) ==
  IF currentStatus = OUTREACH_STATUS.SEQUENCE_STARTED THEN OUTREACH_STATUS.FOLLOWUP_1
  ELSE IF currentStatus = OUTREACH_STATUS.FOLLOWUP_1 THEN OUTREACH_STATUS.FOLLOWUP_2
  ELSE OUTREACH_STATUS.MOVED_TO_LEADS

\* The update after a follow-up, without the timestamp.
FollowupSentUpdate_NoTimestamp(nextStatus) == [outreachStatus |-> nextStatus]

\* The update after a follow-up, with the time of contact cleared.
FollowupSentUpdate_NoAnchor(nextStatus) ==
  [outreachStatus |-> nextStatus, lastContactedTimestamp |-> 0]

\* The update after a successful follow-up send.
FollowupSentUpdate(nextStatus) ==
  [outreachStatus |-> nextStatus, lastContactedTimestamp |-> clock]

\* A candidate that is not due, counted as an error.
NotDueOutcome_Counted == [NoOutcome EXCEPT !.kind = "not_due", !.b = 1]

\* A candidate that is not due: the loop body does nothing.
NotDueOutcome == [NoOutcome EXCEPT !.kind = "not_due"]

\* The cap test with a strict comparison.
LimitReached_Late(emailsSentThisRun) ==
  emailsSentThisRun > MAX_FOLLOWUP_EMAILS_PER_RUN

\* if (emailsSentThisRun >= MAX_FOLLOWUP_EMAILS_PER_RUN) break;
LimitReached(emailsSentThisRun) ==
  emailsSentThisRun >= MAX_FOLLOWUP_EMAILS_PER_RUN

\* One iteration of the loop of handleFollowupEmails; emailsSentThisRun is
\* the number of follow-ups this run has sent.
FollowupOutcome(prospectData, emailsSentThisRun, sendOK) ==
  IF LimitReached(emailsSentThisRun)
  THEN [NoOutcome EXCEPT !.kind = "limit", !.abort = TRUE]
  ELSE IF ~IsDue(prospectData)
  THEN NotDueOutcome
  ELSE
    LET recipient == recipientEmail(prospectData)
        nextStatus == NextStatus(prospectData.outreachStatus)
        templateId == determineTemplateId(prospectData, "followup")
        due == [NoOutcome EXCEPT !.due = TRUE]
    IN  IF recipient = TypeError
        THEN [due EXCEPT !.kind = TypeError, !.abort = TRUE]
        ELSE IF Falsy(recipient)
        THEN [due EXCEPT !.kind = "no_recipient", !.b = 1]
        ELSE IF prospectData.outreachStatus \notin
                  {OUTREACH_STATUS.SEQUENCE_STARTED, OUTREACH_STATUS.FOLLOWUP_1}
        THEN [due EXCEPT !.kind = "moved", !.nextStatus = nextStatus,
                         !.payload = [outreachStatus |-> nextStatus]]
        ELSE IF nextStatus = Null
        THEN [due EXCEPT !.kind = "no_next_status", !.b = 1]
        ELSE IF templateId = NoTemplate
        THEN [due EXCEPT !.kind = "template_missing", !.nextStatus = nextStatus,
                         !.payload = [outreachStatus |-> "template_missing_followup"],
                         !.b = 1]
        ELSE IF sendOK
        THEN [due EXCEPT !.kind = "sent", !.nextStatus = nextStatus,
                         !.call = "ok", !.mode = "template", !.templateId = templateId,
                         !.payload = FollowupSentUpdate(nextStatus),
                         !.a = 1]
        ELSE [due EXCEPT !.kind = "send_failed", !.nextStatus = nextStatus,
                         !.call = "fail", !.mode = "template",
                         !.templateId = templateId, !.b = 1]

\* ----------------------------------------------------------- actions

Init ==
  /\ store \in [Ids -> Profiles]
  /\ clock = 1
  /\ isInitialized = FALSE
  /\ pc = "idle"
  /\ batch = <<>>
  /\ idx = 1
  /\ now = 0
  /\ stats = ZeroStats
  /\ response = NoResponse
  /\ done = <<>>
  /\ env = FullEnv
  /\ sg = NoSend
  /\ defaultApp = FALSE
  /\ other = NoOther
  /\ log = NoLog
  /\ ev = NoEvent

LoopDone == idx > Len(batch)

\* The loop iteration with a failed enrichment tried again: the loop stays
\* on the record.
Iterate_RetryFailed(phase, out, writeOK) ==
  LET prospectData == batch[idx]
  IN  /\ store' = updateProspect(store, prospectData.id, out.payload, writeOK)
      /\ stats' = [a |-> stats.a + out.a, b |-> stats.b + out.b]
      /\ idx' = IF out.abort THEN Len(batch) + 1
                ELSE IF out.kind = "enrichment_failed" THEN idx
                ELSE idx + 1
      /\ ev' = [op |-> phase, doc |-> prospectData,
                preDoc |-> ProspectData(prospectData.id, store[prospectData.id]),
                out |-> out,
                applied |-> writeOK /\ DOMAIN out.payload # {},
                written |-> UpdateArgument(prospectData.id, out.payload),
                before |-> stats]
      /\ log' = Logged(prospectData.id, out)
      /\ UNCHANGED <<clock, isInitialized, pc, batch, now, response, done, env,
                     sg, defaultApp, other>>

\* The effect of one loop iteration of `phase` on the store, the counters
\* and the loop position.
Iterate(phase, out, writeOK) ==
  LET prospectData == batch[idx]
  IN  /\ store' = updateProspect(store, prospectData.id, out.payload, writeOK)
      /\ stats' = [a |-> stats.a + out.a, b |-> stats.b + out.b]
      /\ idx' = IF out.abort THEN Len(batch) + 1 ELSE idx + 1
      /\ ev' = [op |-> phase, doc |-> prospectData,
                preDoc |-> ProspectData(prospectData.id, store[prospectData.id]),
                out |-> out,
                applied |-> writeOK /\ DOMAIN out.payload # {},
                written |-> UpdateArgument(prospectData.id, out.payload),
                before |-> stats]
      /\ log' = Logged(prospectData.id, out)
      /\ UNCHANGED <<clock, isInitialized, pc, batch, now, response, done, env,
                     sg, defaultApp, other>>

StartPhase(phase, docs) ==
  /\ pc' = phase
  /\ batch' = docs
  /\ idx' = 1
  /\ stats' = ZeroStats
  /\ log' = [log EXCEPT !.calls = 0]
  /\ ev' = NoEvent

\* The statistics the running phase returns, appended to those of the
\* phases before it.
Returned == Append(done, [phase |-> pc, a |-> stats.a, b |-> stats.b])

\* The invocation ends with `status` and `message`; `cause` names the place
\* that answered: "responded" (the summary), "init_failed" (the catch around
\* initialize()) or "unhandled" (the catch around the phases).
EndInvocation(status, message, summary, cause) ==
  /\ pc' = "idle"
  /\ batch' = <<>>
  /\ idx' = 1
  /\ now' = 0
  /\ stats' = ZeroStats
  /\ done' = <<>>
  /\ response' = [status |-> status, message |-> message, summary |-> summary]
  /\ log' = NoLog
  /\ ev' = [NoEvent EXCEPT !.op = cause]

\* What the delivery client can return to a phase: without the API key
\* sendEmail throws before calling the provider.
SendResults == IF env.SENDGRID_API_KEY_PATH THEN BOOLEAN ELSE {FALSE}

\* What initialize() can do on a process without a default app: succeed,
\* fail in admin.initializeApp() (no app is registered), or fail after it,
\* in admin.firestore() or the VertexAI constructor (the app stays
\* registered).
InitResults == {"ok", "app_failed", "client_failed"}

\* initialize(): returns at once when isInitialized; otherwise calls
\* admin.initializeApp(), which throws when the default app already exists,
\* then constructs the store and generator clients and sets the flag. The
\* result is whether it returned normally and whether the default app
\* exists afterwards.
Initialize(init) ==
  IF isInitialized THEN [ok |-> TRUE, app |-> defaultApp]
  ELSE IF defaultApp THEN [ok |-> FALSE, app |-> TRUE]
  ELSE [ok |-> init = "ok", app |-> init # "app_failed"]

\* processProspects: initialize(), then handleEnrichment up to its query.
ProcessProspects ==
  /\ pc = "idle"
  /\ \E init \in InitResults :
       /\ defaultApp' = Initialize(init).app
       /\ IF Initialize(init).ok
          THEN /\ isInitialized' = TRUE
               /\ StartPhase("enrich", prospectsToEnrichQuery)
               /\ response' = NoResponse
               /\ done' = <<>>
               /\ UNCHANGED <<store, clock, now, env, sg, other>>
          ELSE /\ EndInvocation(500, "Internal Server Error: Initialization Failed",
                                <<>>, "init_failed")
               /\ UNCHANGED <<store, clock, isInitialized, env, sg, other>>

EnrichStep ==
  /\ pc = "enrich" /\ ~LoopDone
  /\ \E result \in EnrichResults, writeOK \in BOOLEAN :
       Iterate("enrich", EnrichOutcome(batch[idx], result), writeOK)

\* handleEnrichment returns; handleAiInitialEmail runs up to its query.
\* modelOK = FALSE is vertexai.getGenerativeModel() throwing: the call is
\* made before the try block of the handler, so the exception reaches the
\* catch of processProspects.
StartAi ==
  /\ pc = "enrich" /\ LoopDone
  /\ \E modelOK \in BOOLEAN :
       IF modelOK
       THEN /\ StartPhase("ai", prospectsToGenerateQuery)
            /\ done' = Returned
            /\ UNCHANGED <<store, clock, isInitialized, now, response, env, sg,
                           defaultApp, other>>
       ELSE /\ EndInvocation(500, "Internal Server Error", <<>>, "unhandled")
            /\ UNCHANGED <<store, clock, isInitialized, env, sg,
                           defaultApp, other>>

AiStep ==
  /\ pc = "ai" /\ ~LoopDone
  /\ \E gen \in GenResults, writeOK \in BOOLEAN :
       Iterate("ai", AiOutcome(batch[idx], gen), writeOK)

StartInitial ==
  /\ pc = "ai" /\ LoopDone
  /\ StartPhase("initial", prospectsToSendQuery)
  /\ done' = Returned
  /\ UNCHANGED <<store, clock, isInitialized, now, response, env, sg,
                 defaultApp, other>>

InitialStep ==
  /\ pc = "initial" /\ ~LoopDone
  /\ \E sendOK \in SendResults, writeOK \in BOOLEAN :
       Iterate("initial", InitialOutcome(batch[idx], sendOK), writeOK)

StartFollowup ==
  /\ pc = "initial" /\ LoopDone
  /\ StartPhase("followup", prospectsToCheckQuery)
  /\ done' = Returned
  /\ now' = clock
  /\ UNCHANGED <<store, clock, isInitialized, response, env, sg,
                 defaultApp, other>>

FollowupStep ==
  /\ pc = "followup" /\ ~LoopDone
  /\ \E sendOK \in SendResults, writeOK \in BOOLEAN :
       Iterate("followup",
               FollowupOutcome(batch[idx], stats.a, sendOK), writeOK)

\* The response turned into a failure when a phase counted an error.
Respond_FailsOnErrors ==
  /\ pc = "followup" /\ LoopDone
  /\ IF \E k \in 2..Len(Returned) : Returned[k].b > 0
     THEN EndInvocation(500, "Internal Server Error", <<>>, "responded")
     ELSE EndInvocation(200, "OK", Returned, "responded")
  /\ UNCHANGED <<store, clock, isInitialized, env, sg,
                 defaultApp, other>>

\* res.status(200).send(summary)
Respond ==
  /\ pc = "followup" /\ LoopDone
  /\ EndInvocation(200, "OK", Returned, "responded")
  /\ UNCHANGED <<store, clock, isInitialized, env, sg,
                 defaultApp, other>>

\* A day passes between two invocations of the scheduler.
Tick ==
  /\ pc = "idle"
  /\ clock < MaxDay
  /\ clock' = clock + 1
  /\ response' = NoResponse
  /\ ev' = NoEvent
  /\ UNCHANGED <<store, isInitialized, pc, batch, idx, now, stats, done, env,
                 sg, defaultApp, other, log>>

\* Reply handling / unsubscribe: an external actor moves a prospect to a
\* manual terminal status, between two invocations.
ManualTransition ==
  /\ pc = "idle"
  /\ \E i \in Ids, s \in ManualStatuses :
       /\ store[i].outreachStatus \notin ManualStatuses
       /\ store' = [store EXCEPT ![i].outreachStatus = s]
       /\ ev' = NoEvent
  /\ response' = NoResponse
  /\ UNCHANGED <<clock, isInitialized, pc, batch, idx, now, stats, done, env,
                 sg, defaultApp, other, log>>

Next ==
  \/ ProcessProspects
  \/ EnrichStep
  \/ StartAi
  \/ AiStep
  \/ StartInitial
  \/ InitialStep
  \/ StartFollowup
  \/ FollowupStep
  \/ Respond
  \/ Tick

\* The job alone: the single writer of the collection.
Spec == Init /\ [][Next]_vars

\* The job and the external actor that sets the manual statuses.
InitExternal ==
  /\ Init
  /\ store[1] \in ExternalProfiles
  /\ \A i \in Ids \ {1} : store[i] = BaseDoc

NextExternal ==
  \/ Next
  \/ ManualTransition

SpecExternal == InitExternal /\ [][NextExternal]_vars

\* The external actor moves a prospect to a manual terminal status while a
\* send phase is in its loop: after the phase fetched its snapshot and
\* before it has written the records that are left.
ManualTransitionDuringRun ==
  /\ pc \in {"initial", "followup"}
  /\ ~LoopDone
  /\ \E k \in idx..Len(batch), s \in ManualStatuses :
       /\ store[batch[k].id].outreachStatus \notin ManualStatuses
       /\ store' = [store EXCEPT ![batch[k].id].outreachStatus = s]
  /\ UNCHANGED <<clock, isInitialized, pc, batch, idx, now, stats, response,
                 done, env, sg, defaultApp, other, log, ev>>

NextRace ==
  \/ Next
  \/ ManualTransitionDuringRun

\* The job and the external actor writing during its send phases.
SpecRace == InitExternal /\ [][NextRace]_vars

\* A second invocation of processProspects, started before the first has
\* answered, reaches the query of handleInitialEmails: it fetches its own
\* snapshot of the pending_upload records.
OtherFetch ==
  /\ pc \in Phases
  /\ other.pc = "idle"
  /\ other' = [pc |-> "initial", batch |-> prospectsToSendQuery, idx |-> 1,
                sent |-> {}]
  /\ UNCHANGED <<store, clock, isInitialized, pc, batch, idx, now, stats,
                 response, done, env, sg, defaultApp, log, ev>>

\* One iteration of the loop of handleInitialEmails in the second
\* invocation, on its own snapshot; after the last one its phase is over.
OtherInitialStep ==
  /\ other.pc = "initial"
  /\ IF other.idx > Len(other.batch)
     THEN /\ other' = [other EXCEPT !.pc = "done"]
          /\ UNCHANGED <<store, ev>>
     ELSE \E sendOK \in SendResults, writeOK \in BOOLEAN :
            LET prospectData == other.batch[other.idx]
                out == InitialOutcome(prospectData, sendOK)
            IN  /\ store' = updateProspect(store, prospectData.id, out.payload,
                                           writeOK)
                /\ other' = [other EXCEPT
                               !.idx = IF out.abort THEN Len(other.batch) + 1
                                       ELSE @ + 1,
                               !.sent = IF out.call = "ok"
                                        THEN @ \cup {prospectData.id} ELSE @]
                /\ ev' = [op |-> "overlap", doc |-> prospectData,
                          preDoc |-> ProspectData(prospectData.id,
                                                  store[prospectData.id]),
                          out |-> out,
                          applied |-> writeOK /\ DOMAIN out.payload # {},
                          written |-> UpdateArgument(prospectData.id, out.payload),
                          before |-> ZeroStats]
  /\ UNCHANGED <<clock, isInitialized, pc, batch, idx, now, stats, response,
                 done, env, sg, defaultApp, log>>

NextOverlap ==
  \/ Next
  \/ OtherFetch
  \/ OtherInitialStep

\* The job with a second invocation that overlaps the first.
SpecOverlap == InitExternal /\ [][NextOverlap]_vars

\* Every setting of the three credentials and settings.
Envs ==
  [SENDGRID_API_KEY_PATH : BOOLEAN, SENDGRID_FROM_EMAIL : BOOLEAN,
   PROXYCURL_API_KEY_PATH : BOOLEAN]

\* The job deployed with any configuration.
InitConfig ==
  /\ store \in [Ids -> ExternalProfiles]
  /\ \A i \in Ids \ {1} : store[i] = BaseDoc
  /\ clock = 1
  /\ isInitialized = FALSE
  /\ pc = "idle"
  /\ batch = <<>>
  /\ idx = 1
  /\ now = 0
  /\ stats = ZeroStats
  /\ response = NoResponse
  /\ done = <<>>
  /\ env \in Envs
  /\ sg = NoSend
  /\ defaultApp = FALSE
  /\ other = NoOther
  /\ log = NoLog
  /\ ev = NoEvent

SpecConfig == InitConfig /\ [][Next]_vars

\* A record the sequence has contacted on day 1.
ContactedDoc(status) ==
  [BaseDoc EXCEPT !.outreachStatus = status, !.lastContactedTimestamp = 1]

\* The end of a long follow-up batch: the loop of handleFollowupEmails has
\* handled every candidate but the last NumRecords, and emailsSentThisRun
\* counts the follow-ups it has sent to them.
InitFollowupTail ==
  /\ store \in [Ids -> ExternalProfiles
                          \cup {ContactedDoc(OUTREACH_STATUS.SEQUENCE_STARTED),
                                ContactedDoc(OUTREACH_STATUS.FOLLOWUP_1)}]
  /\ clock \in {2, 4}
  /\ isInitialized = TRUE
  /\ pc = "followup"
  /\ batch = prospectsToCheckQuery
  /\ idx = 1
  /\ now = clock
  /\ stats \in {[a |-> sent, b |-> 0] :
                  sent \in (MAX_FOLLOWUP_EMAILS_PER_RUN - 2)
                            ..MAX_FOLLOWUP_EMAILS_PER_RUN}
  /\ response = NoResponse
  /\ done = <<[phase |-> "enrich", a |-> 0, b |-> 0],
               [phase |-> "ai", a |-> 0, b |-> 0],
               [phase |-> "initial", a |-> 0, b |-> 0]>>
  /\ env = FullEnv
  /\ sg = NoSend
  /\ defaultApp = TRUE
  /\ other = NoOther
  /\ log = [NoLog EXCEPT !.calls = stats.a]
  /\ ev = NoEvent

SpecCap == InitFollowupTail /\ [][Next]_vars

\* A collection one record larger than the smallest per-phase maximum.
LimitRecords == MAX_PROSPECTS_TO_ENRICH_PER_RUN + 1

\* The job started on a collection that holds more records than the
\* Enrichment phase takes in one run.
InitLimit ==
  /\ store \in [1..LimitRecords -> ExternalProfiles]
  /\ \A i \in 1..MAX_PROSPECTS_TO_ENRICH_PER_RUN : store[i] # BaseDoc
  /\ clock = MaxDay - 1
  /\ isInitialized = FALSE
  /\ pc = "idle"
  /\ batch = <<>>
  /\ idx = 1
  /\ now = 0
  /\ stats = ZeroStats
  /\ response = NoResponse
  /\ done = <<>>
  /\ env = FullEnv
  /\ sg = NoSend
  /\ defaultApp = FALSE
  /\ other = NoOther
  /\ log = NoLog
  /\ ev = NoEvent

SpecLimit == InitLimit /\ [][Next]_vars

\* The scheduler keeps invoking the job and every started step completes:
\* an invocation is never stuck, initialize() does not fail forever and
\* neither does vertexai.getGenerativeModel().
Fairness ==
  /\ WF_vars(Next)
  /\ SF_vars(ProcessProspects /\ pc' = "enrich")
  /\ SF_vars(StartAi /\ pc' = "ai")

\* One record more than the Enrichment phase takes per run, none of them
\* enriched yet, in a process that is initialized.
InitBacklog ==
  /\ store \in [1..LimitRecords -> ExternalProfiles \ {BaseDoc}]
  /\ clock = MaxDay - 1
  /\ isInitialized = TRUE
  /\ pc = "idle"
  /\ batch = <<>>
  /\ idx = 1
  /\ now = 0
  /\ stats = ZeroStats
  /\ response = NoResponse
  /\ done = <<>>
  /\ env = FullEnv
  /\ sg = NoSend
  /\ defaultApp = TRUE
  /\ other = NoOther
  /\ log = NoLog
  /\ ev = NoEvent

\* The job invoked again and again on a backlog of records to enrich.
SpecBacklog == InitBacklog /\ [][Next]_vars /\ Fairness

\* The records the runs on follow-ups start from: one the job has sent the
\* initial email a day ago, the same uploaded without the followupNotNeeded
\* field, and an upload not enriched yet.
ContactedProfiles ==
  {ContactedDoc(OUTREACH_STATUS.SEQUENCE_STARTED),
   [ContactedDoc(OUTREACH_STATUS.SEQUENCE_STARTED)
      EXCEPT !.followupNotNeeded = Undefined]}
    \cup (ExternalProfiles \ {BaseDoc})

\* Records that wait for a follow-up, in a process that is initialized.
InitContacted ==
  /\ store \in [Ids -> ContactedProfiles]
  /\ clock = 1
  /\ isInitialized = TRUE
  /\ pc = "idle"
  /\ batch = <<>>
  /\ idx = 1
  /\ now = 0
  /\ stats = ZeroStats
  /\ response = NoResponse
  /\ done = <<>>
  /\ env = FullEnv
  /\ sg = NoSend
  /\ defaultApp = TRUE
  /\ other = NoOther
  /\ log = NoLog
  /\ ev = NoEvent

\* The job invoked again and again on records that wait for a follow-up.
SpecContacted == InitContacted /\ [][Next]_vars /\ Fairness

\* A document the Content Generation phase selects: enriched, not yet
\* contacted, aiInitialEmailTemplate false.
GenDoc == [BaseDoc EXCEPT !.aiInitialEmailTemplate = "false"]

\* The documents the runs of the generation start from: complete ones, one
\* for each essential field a document may lack, one without a language,
\* and one that is not enriched yet.
GenProfiles ==
  { GenDoc,
    [GenDoc EXCEPT !.firstName = Undefined],
    [GenDoc EXCEPT !.jobTitle = ""],
    [GenDoc EXCEPT !.companyName = Undefined],
    [GenDoc EXCEPT !.country = Undefined],
    [GenDoc EXCEPT !.language = Undefined],
    [GenDoc EXCEPT !.enrichmentSuccess = "false",
                   !.emailStatus = EMAIL_STATUS.PENDING] }

InitGen ==
  /\ store \in [Ids -> GenProfiles]
  /\ clock = 1
  /\ isInitialized = FALSE
  /\ pc = "idle"
  /\ batch = <<>>
  /\ idx = 1
  /\ now = 0
  /\ stats = ZeroStats
  /\ response = NoResponse
  /\ done = <<>>
  /\ env = FullEnv
  /\ sg = NoSend
  /\ defaultApp = FALSE
  /\ other = NoOther
  /\ log = NoLog
  /\ ev = NoEvent

SpecGen == InitGen /\ [][Next]_vars

\* ------------------------------------ config.js: calls of the resolver

\* The language and country values a prospect document may hold, the
\* field being absent for Undefined.
ResolverLanguages == {Undefined, "", "en", "EN", "fr", "FR", "de"}
ResolverCountries ==
  {Undefined, "", "Atlantis", "United States", "Canada", "France", "Belgique",
   "Switzerland", "Suisse", "Germany"}

\* The emailType arguments: the two of the job and one without templates.
ResolverEmailTypes == EmailTypes \cup {"reminder"}

\* determineTemplateId(prospectData, emailType) called on a document of the
\* collection; the step records the document, the emailType (out.kind) and
\* the value returned (out.templateId).
DetermineTemplateId ==
  /\ pc = "idle"
  /\ \E i \in DOMAIN store, emailType \in ResolverEmailTypes :
       ev' = [NoEvent EXCEPT
                !.op = "determineTemplateId",
                !.doc = ProspectData(i, store[i]),
                !.out = [NoOutcome EXCEPT
                           !.kind = emailType,
                           !.templateId =
                             determineTemplateId(ProspectData(i, store[i]),
                                                 emailType)]]
  /\ UNCHANGED <<store, clock, isInitialized, pc, batch, idx, now, stats,
                 response, done, env, sg, defaultApp, other, log>>

\* The resolver alone, on documents of every language and country.
InitResolver ==
  /\ store \in [Ids -> {[BaseDoc EXCEPT !.language = l, !.country = c] :
                          l \in ResolverLanguages, c \in ResolverCountries}]
  /\ \A i \in Ids \ {1} : store[i] = BaseDoc
  /\ clock = 1
  /\ isInitialized = FALSE
  /\ pc = "idle"
  /\ batch = <<>>
  /\ idx = 1
  /\ now = 0
  /\ stats = ZeroStats
  /\ response = NoResponse
  /\ done = <<>>
  /\ env = FullEnv
  /\ sg = NoSend
  /\ defaultApp = FALSE
  /\ other = NoOther
  /\ log = NoLog
  /\ ev = NoEvent

NextResolver == DetermineTemplateId

SpecResolver == InitResolver /\ [][NextResolver]_vars

\* ------------------------------ index.js: calls of buildVertexPrompt

\* The language of the prompt buildVertexPrompt builds, or the TypeError of
\* prospectData.language.toLowerCase() on an absent language. In the switch
\* a case label ("a", "b") is a comma expression and has the value "b".
buildVertexPrompt(prospectData) ==
  IF prospectData.language = Undefined
  THEN TypeError
  ELSE LET language == IF toLowerCase(prospectData.language) = "fr"
                       THEN "French"
                       ELSE IF Falsy(prospectData.language) THEN "English"
                       ELSE prospectData.language
           country == IF prospectData.country = Undefined THEN Undefined
                      ELSE toLowerCase(prospectData.country)
       IN  IF ~Falsy(prospectData.language) THEN language
           ELSE IF country \in {"france", "belgique", "canada"} THEN "French"
           ELSE IF country = "swiss" THEN "French"
           ELSE "English"

\* The countries of the documents a prompt is built for.
PromptCountries == ResolverCountries \cup {"Belgium", "Swiss"}

\* buildVertexPrompt(prospectData) called on a document of the collection;
\* the step records the document and the language of the prompt (out.kind).
BuildVertexPrompt ==
  /\ pc = "idle"
  /\ \E i \in DOMAIN store :
       ev' = [NoEvent EXCEPT
                !.op = "buildVertexPrompt",
                !.doc = ProspectData(i, store[i]),
                !.out = [NoOutcome EXCEPT
                           !.kind = buildVertexPrompt(ProspectData(i, store[i]))]]
  /\ UNCHANGED <<store, clock, isInitialized, pc, batch, idx, now, stats,
                 response, done, env, sg, defaultApp, other, log>>

\* The prompt builder alone, on documents of every language and country.
InitPrompt ==
  /\ store \in [Ids -> {[BaseDoc EXCEPT !.language = l, !.country = c] :
                          l \in ResolverLanguages, c \in PromptCountries}]
  /\ \A i \in Ids \ {1} : store[i] = BaseDoc
  /\ clock = 1
  /\ isInitialized = FALSE
  /\ pc = "idle"
  /\ batch = <<>>
  /\ idx = 1
  /\ now = 0
  /\ stats = ZeroStats
  /\ response = NoResponse
  /\ done = <<>>
  /\ env = FullEnv
  /\ sg = NoSend
  /\ defaultApp = FALSE
  /\ other = NoOther
  /\ log = NoLog
  /\ ev = NoEvent

NextPrompt == BuildVertexPrompt

SpecPrompt == InitPrompt /\ [][NextPrompt]_vars

\* ---------------------------- firestoreHelper: calls of updateProspect

\* The updateData arguments of a call: none of the fields, the updates the
\* phases issue, and an update that carries a modification time of its own.
UpdatePayloads ==
  {NoPayload,
   [outreachStatus |-> "template_missing"],
   AiFailure("Unknown AI Error"),
   [followupNotNeeded |-> "true", lastModifiedTimestamp |-> 0]}

\* updateProspect(prospectId, updateData, db, logger) called with any id
\* (0: none) and any payload.
UpdateProspect ==
  /\ pc = "idle"
  /\ \E prospectId \in {0} \cup DOMAIN store, updateData \in UpdatePayloads,
        writeOK \in BOOLEAN :
       LET data == IF prospectId = 0 THEN NoDoc
                   ELSE ProspectData(prospectId, store[prospectId])
       IN  /\ store' = updateProspect(store, prospectId, updateData, writeOK)
           /\ ev' = [NoEvent EXCEPT
                       !.op = "updateProspect",
                       !.doc = data,
                       !.preDoc = data,
                       !.out = [NoOutcome EXCEPT !.payload = updateData],
                       !.applied = /\ writeOK
                                   /\ DOMAIN UpdateArgument(prospectId, updateData) # {},
                       !.written = UpdateArgument(prospectId, updateData)]
  /\ UNCHANGED <<clock, isInitialized, pc, batch, idx, now, stats, response,
                 done, env, sg, defaultApp, other, log>>

\* The adapter alone, between two invocations of the job.
InitStore ==
  /\ Init
  /\ \A i \in Ids : store[i] = BaseDoc

NextStore ==
  \/ UpdateProspect
  \/ Tick

SpecStore == InitStore /\ [][NextStore]_vars

\* ------------------------------------- sendgridHelper: delivery client

\* const maxRetries / retryDelayBase of sendEmail, maxRetries / retryDelay
\* of sendRawEmail (milliseconds), and the factor of Math.random().
sendEmail_maxRetries == 3
sendEmail_retryDelayBase == 5000
sendRawEmail_maxRetries == 5
sendRawEmail_retryDelay == 60000
JitterFactor == 1000

\* What sgMail.send can answer: 202 is acceptance, 0 an error without a
\* response object (network), the others error.response.statusCode.
Answers == {0, 202, 400, 401, 403, 404, 429, 500, 503}

\* Math.random() * 1000, in whole milliseconds.
Jitters == {0, JitterFactor \div 2, JitterFactor - 1}

maxRetries(mode) ==
  IF mode = "template" THEN sendEmail_maxRetries ELSE sendRawEmail_maxRetries

\* The first test on error.response.statusCode: thrown at once.
Permanent(mode, statusCode) ==
  IF mode = "template"
  THEN statusCode = 400 \/ statusCode = 401 \/ statusCode = 403
  ELSE statusCode = 400 \/ statusCode = 403

\* The second test on error.response.statusCode: retried.
Retryable(mode, statusCode) ==
  IF mode = "template"
  THEN statusCode = 429 \/ statusCode >= 500
  ELSE statusCode = 429 \/ statusCode >= 401 \/ statusCode >= 500

\* The delay before the retry numbered retryCount.
retryDelay(mode, retryCount, jitter) ==
  IF mode = "template"
  THEN sendEmail_retryDelayBase * 2^(retryCount - 1) + jitter
  ELSE sendRawEmail_retryDelay

\* The give-up test letting one more retry through.
GiveUp_OneMore(retryCount, max) == retryCount > max + 1

\* if (retryCount > maxRetries) throw error;
GiveUp(retryCount, max) == retryCount > max

\* One run of sendWithRetry from the provider's answer to the return, the
\* throw or the recursive call.
sendWithRetry(call, answer, jitter) ==
  LET tried == [call EXCEPT !.attempts = @ + 1, !.last = answer]
      retried == [tried EXCEPT !.retryCount = @ + 1]
      again ==
        IF GiveUp(retried.retryCount, maxRetries(call.mode))
        THEN [retried EXCEPT !.state = "failed"]
        ELSE [retried EXCEPT
                !.delays = Append(@, retryDelay(call.mode, retried.retryCount,
                                                jitter))]
  IN  IF answer = 202 THEN [tried EXCEPT !.state = "sent"]
      ELSE IF answer # 0
      THEN IF Permanent(call.mode, answer) THEN [tried EXCEPT !.state = "failed"]
           ELSE IF Retryable(call.mode, answer) THEN again
           ELSE [tried EXCEPT !.state = "failed"]
      ELSE again

\* A call of the client after the checks it makes before its first attempt.
NewSend(mode, configured) ==
  [NoSend EXCEPT !.mode = mode,
                 !.state = IF configured THEN "sending" ELSE "failed"]

\* sendEmail(toEmail, templateId, templateData, options, logger): the from
\* address falls back to a default, so only the API key is required.
SendEmail ==
  /\ sg.state # "sending"
  /\ sg' = NewSend("template", env.SENDGRID_API_KEY_PATH)
  /\ UNCHANGED jobVars
  /\ UNCHANGED env

\* sendRawEmail(to, subject, body, options, logger)
SendRawEmail ==
  /\ sg.state # "sending"
  /\ sg' = NewSend("raw", env.SENDGRID_API_KEY_PATH /\ env.SENDGRID_FROM_EMAIL)
  /\ UNCHANGED jobVars
  /\ UNCHANGED env

\* The provider answers the attempt under way.
SendWithRetry ==
  /\ sg.state = "sending"
  /\ \E answer \in Answers, jitter \in Jitters :
       sg' = sendWithRetry(sg, answer, jitter)
  /\ UNCHANGED jobVars
  /\ UNCHANGED env

\* The delivery client alone, under any configuration.
InitDelivery ==
  /\ store = [i \in Ids |-> BaseDoc]
  /\ clock = 1
  /\ isInitialized = FALSE
  /\ pc = "idle"
  /\ batch = <<>>
  /\ idx = 1
  /\ now = 0
  /\ stats = ZeroStats
  /\ response = NoResponse
  /\ done = <<>>
  /\ env \in Envs
  /\ sg = NoSend
  /\ defaultApp = FALSE
  /\ other = NoOther
  /\ log = NoLog
  /\ ev = NoEvent

NextDelivery ==
  \/ SendEmail
  \/ SendRawEmail
  \/ SendWithRetry

SpecDelivery == InitDelivery /\ [][NextDelivery]_vars

\* ------------------------------------------------------------ claims

\* The automated sequence, in order, with the values of OUTREACH_STATUS.
OutreachSequence ==
  <<OUTREACH_STATUS.PENDING_UPLOAD, OUTREACH_STATUS.SEQUENCE_STARTED,
    OUTREACH_STATUS.FOLLOWUP_1, OUTREACH_STATUS.FOLLOWUP_2,
    OUTREACH_STATUS.MOVED_TO_LEADS>>

Rank(status) == CHOOSE k \in 1..Len(OutreachSequence) : OutreachSequence[k] = status

InSequence(status) == \E k \in 1..Len(OutreachSequence) : OutreachSequence[k] = status

\* The error statuses a phase writes to take a record out of the sequence.
ErrorStatuses ==
  {OUTREACH_STATUS.ENRICHMENT_FAILED, "ai_content_invalid", "template_missing",
   "template_missing_followup"}

\* The last step was a loop iteration of a phase.
PhaseStep == ev.op \in Phases

\* The last step issued an update that sets outreachStatus.
WroteStatus == PhaseStep /\ "outreachStatus" \in DOMAIN ev.out.payload

\* The record the last step handled is as it was before the step.
RecordUntouched == ProspectData(ev.doc.id, store[ev.doc.id]) = ev.preDoc

\* C1: every outreachStatus a phase writes is either an error status or a
\* status strictly later in the sequence than the status the record held
\* when it was written; none is earlier.
C1_StatusOnlyAdvances ==
  WroteStatus =>
    LET old == ev.preDoc.outreachStatus
        new == ev.out.payload.outreachStatus
    IN  \/ new \in ErrorStatuses
        \/ /\ InSequence(old) /\ InSequence(new)
           /\ Rank(new) > Rank(old)

C1_Witness ==
  /\ ev.op = "followup" /\ ev.applied
  /\ ev.preDoc.outreachStatus = "sequence_started"
  /\ store[ev.doc.id].outreachStatus = "followup_1"

\* C2: no phase writes a manual terminal status, and no phase issues an
\* outreachStatus update for a record whose stored status is one of them.
C2_ManualStatusesUntouched ==
  WroteStatus =>
    /\ ev.out.payload.outreachStatus \notin ManualStatuses
    /\ ev.preDoc.outreachStatus \notin ManualStatuses

\* The follow-up phase has run to its end while a contacted record whose
\* interval has elapsed is in a manual status.
C2_Witness ==
  /\ pc = "followup" /\ LoopDone
  /\ \E i \in Ids :
       /\ store[i].outreachStatus \in ManualStatuses
       /\ store[i].lastContactedTimestamp # 0
       /\ now >= store[i].lastContactedTimestamp + 3

\* A recipient address resolves for the record.
HasRecipient(prospectData) ==
  /\ recipientEmail(prospectData) # TypeError
  /\ ~Falsy(recipientEmail(prospectData))

\* The stored AI content is usable: flagged, present, subject non-empty and
\* a body of at least fifty characters.
AiContentUsable(prospectData) ==
  /\ prospectData.aiInitialEmailTemplate = "true"
  /\ prospectData.aiInitialEmail.present
  /\ prospectData.aiInitialEmail.subject # ""
  /\ prospectData.aiInitialEmail.bodyLength >= 50

\* The record's content strategy yields content: usable AI content when the
\* record is flagged for it, a resolvable template otherwise.
HasContent(prospectData) ==
  IF prospectData.aiInitialEmailTemplate = "true" /\ prospectData.aiInitialEmail.present
  THEN AiContentUsable(prospectData)
  ELSE determineTemplateId(prospectData, "initial") # NoTemplate

\* C3: an Initial Send step on a record with a recipient and with a
\* resolvable template or usable AI content, whose delivery does not fail,
\* issues one update that sets outreachStatus to sequence_started together
\* with a fresh lastContactedTimestamp.
C3_InitialSendTransitions ==
  ( /\ ev.op = "initial"
    /\ HasRecipient(ev.doc)
    /\ HasContent(ev.doc)
    /\ ev.out.call # "fail" )
  => ev.out.payload = [outreachStatus |-> "sequence_started",
                       lastContactedTimestamp |-> clock]

\* C4: the Initial Send phase issues a delivery call or a write only for a
\* record that had enrichmentSuccess true and outreachStatus pending_upload
\* when it was queried, and still has them when it is handled.
C4_InitialOnlyPendingEnriched ==
  ( /\ ev.op = "initial"
    /\ \/ ev.out.call # "none"
       \/ DOMAIN ev.out.payload # {} )
  => /\ ev.doc.enrichmentSuccess = "true"
     /\ ev.doc.outreachStatus = "pending_upload"
     /\ ev.preDoc.enrichmentSuccess = "true"
     /\ ev.preDoc.outreachStatus = "pending_upload"

C4_Witness ==
  /\ ev.op = "initial" /\ ev.out.call = "ok" /\ ev.applied
  /\ store[ev.doc.id].outreachStatus = "sequence_started"

\* C5: when the delivery of an initial email fails, the error counter
\* grows by one, nothing is written for the record, the loop goes on to the
\* next record, and the record still matches the selection of the phase.
C5_InitialFailureLeavesRecord ==
  (ev.op = "initial" /\ ev.out.call = "fail")
  => /\ stats = [a |-> ev.before.a, b |-> ev.before.b + 1]
     /\ DOMAIN ev.out.payload = {}
     /\ DOMAIN ev.written = {}
     /\ RecordUntouched
     /\ pc = "initial" /\ ~ev.out.abort
     /\ idx <= Len(batch) + 1 /\ batch[idx - 1].id = ev.doc.id
     /\ \E k \in 1..Len(prospectsToSendQuery) :
          prospectsToSendQuery[k].id = ev.doc.id

\* A failed initial delivery with a further record of the batch to handle.
C5_Witness ==
  /\ ev.op = "initial" /\ ev.out.call = "fail"
  /\ idx <= Len(batch)

\* C6: a successful follow-up delivery to a sequence_started record issues
\* the update {followup_1, fresh lastContactedTimestamp}, to a followup_1
\* record the update {followup_2, fresh lastContactedTimestamp}; a failed
\* follow-up delivery leaves both fields of the record as they were.
C6_FollowupAdvancesOneStage ==
  /\ (ev.op = "followup" /\ ev.out.call = "ok")
     => /\ ev.doc.outreachStatus \in {"sequence_started", "followup_1"}
        /\ ev.out.payload =
             [outreachStatus |-> IF ev.doc.outreachStatus = "sequence_started"
                                 THEN "followup_1" ELSE "followup_2",
              lastContactedTimestamp |-> clock]
        /\ ev.applied =>
             /\ store[ev.doc.id].outreachStatus = ev.out.payload.outreachStatus
             /\ store[ev.doc.id].lastContactedTimestamp = clock
        /\ ~ev.applied => RecordUntouched
  /\ (ev.op = "followup" /\ ev.out.call = "fail")
     => /\ DOMAIN ev.out.payload = {}
        /\ RecordUntouched

C6_Witness ==
  /\ ev.op = "followup" /\ ev.out.call = "ok" /\ ev.applied
  /\ ev.preDoc.outreachStatus = "followup_1"
  /\ store[ev.doc.id].outreachStatus = "followup_2"
  /\ store[ev.doc.id].lastContactedTimestamp = clock

\* C7: when the Follow-up phase has handled its batch, a record is in
\* followup_2 only if that very run put it there: a record that was in
\* followup_2 when the phase started has been moved on.
C7_FollowupTwoMovedOn ==
  (pc = "followup" /\ LoopDone)
  => \A i \in Ids :
       store[i].outreachStatus = "followup_2"
       => \E k \in 1..Len(batch) : batch[k].id = i

\* The statuses the next-status computation may yield.
NextStatusTargets == {"followup_1", "followup_2", OUTREACH_STATUS.MOVED_TO_LEADS}

\* C8: for every follow-up-eligible status the next-status computation
\* yields followup_1, followup_2 or the fallback, never null; a due
\* candidate with a recipient is never dropped for a missing next status.
C8_NextStatusNeverNull ==
  /\ \A s \in followupEligibleStatuses :
       NextStatus(s) \in NextStatusTargets /\ NextStatus(s) # Null
  /\ ( /\ ev.op = "followup" /\ ev.out.due
       /\ HasRecipient(ev.doc) )
     => /\ ev.out.nextStatus \in NextStatusTargets
        /\ ev.out.kind # "no_next_status"

C8_Witness ==
  /\ ev.op = "followup" /\ ev.out.due /\ HasRecipient(ev.doc)
  /\ ev.doc.outreachStatus = "followup_1"
  /\ ev.out.nextStatus = "followup_2"

\* The statuses a record may hold.
AllStatuses ==
  {OUTREACH_STATUS[k] : k \in DOMAIN OUTREACH_STATUS} \cup ErrorStatuses

\* The due rule in numbers: two days after the last contact in
\* sequence_started, three days in followup_1, never otherwise.
DueByRule(lastContactedTimestamp, status, at) ==
  /\ lastContactedTimestamp # 0
  /\ \/ status = "sequence_started" /\ at >= lastContactedTimestamp + 2
     \/ status = "followup_1" /\ at >= lastContactedTimestamp + 3

\* C9: a candidate is due exactly when it has a lastContactedTimestamp, its
\* status has an interval, and the reference time is at or after the
\* timestamp plus the interval (2 days for sequence_started, 3 days for
\* followup_1); this holds of the computation for every status and of
\* every candidate the Follow-up phase examines.
C9_DueExactlyByInterval ==
  /\ \A s \in AllStatuses : \A t \in 0..MaxDay : \A at \in 0..MaxDay :
       (getFollowupDueDate(t, s) # 0 /\ getFollowupDueDate(t, s) <= at)
         <=> DueByRule(t, s, at)
  /\ (ev.op = "followup" /\ ev.out.kind # "limit")
     => (ev.out.due <=> DueByRule(ev.doc.lastContactedTimestamp,
                                  ev.doc.outreachStatus, now))

\* A candidate examined on the very day its interval elapses.
C9_Witness ==
  /\ ev.op = "followup" /\ ev.out.due
  /\ ev.doc.outreachStatus = "followup_1"
  /\ now = ev.doc.lastContactedTimestamp + 3

\* C10: a Follow-up step on a candidate that is not due writes nothing,
\* makes no delivery call and changes neither counter.
C10_NotDueIsSkipped ==
  ( /\ ev.op = "followup"
    /\ ~DueByRule(ev.doc.lastContactedTimestamp, ev.doc.outreachStatus, now) )
  => /\ ev.out.call = "none"
     /\ DOMAIN ev.out.payload = {}
     /\ DOMAIN ev.written = {}
     /\ RecordUntouched
     /\ stats = ev.before

\* A candidate examined one day before its interval elapses.
C10_Witness ==
  /\ ev.op = "followup"
  /\ ev.doc.outreachStatus = "sequence_started"
  /\ now = ev.doc.lastContactedTimestamp + 1

\* C11: in one run of the Follow-up phase the count of follow-ups sent never
\* exceeds MAX_FOLLOWUP_EMAILS_PER_RUN, and a step taken once that many are
\* sent leaves the loop without examining, sending to or writing the
\* candidate, so that no further candidate of the batch is handled.
C11_FollowupCapHolds ==
  /\ pc = "followup" => stats.a <= MAX_FOLLOWUP_EMAILS_PER_RUN
  /\ (ev.op = "followup" /\ ev.before.a >= MAX_FOLLOWUP_EMAILS_PER_RUN)
     => /\ ev.out.kind = "limit"
        /\ ev.out.call = "none"
        /\ DOMAIN ev.written = {}
        /\ RecordUntouched
        /\ stats = ev.before
        /\ LoopDone

\* The cap stops the loop in front of a candidate that is due, with a
\* further candidate behind it.
C11_Witness ==
  /\ ev.op = "followup" /\ ev.out.kind = "limit"
  /\ stats.a = MAX_FOLLOWUP_EMAILS_PER_RUN
  /\ DueByRule(ev.doc.lastContactedTimestamp, ev.doc.outreachStatus, now)
  /\ ev.doc.id < NumRecords

\* The four phases in the order of one invocation.
PhaseOrder == <<"enrich", "ai", "initial", "followup">>

\* `returned` lists the statistics of the first phases, in order.
InPhaseOrder(returned) ==
  /\ Len(returned) <= Len(PhaseOrder)
  /\ \A k \in 1..Len(returned) : returned[k].phase = PhaseOrder[k]

\* C12: within one invocation the phases return in the order Enrichment,
\* Content Generation, Initial Send, Follow-up, and an invocation whose
\* initialization succeeded ends only after all four phases have returned
\* their counters, whatever exception a phase met.
C12_EveryPhaseRuns ==
  /\ InPhaseOrder(done)
  /\ (response.status # 0 /\ ev.op # "init_failed")
     => /\ InPhaseOrder(response.summary)
        /\ Len(response.summary) = Len(PhaseOrder)

\* C13: an invocation answers 200, with the counters of all four phases,
\* exactly when its summary statement is reached, whatever errors the
\* phases counted; it answers 500 only from the catch around initialize()
\* or the catch around the phases, and after a failed initialization no
\* phase has run and the function is still uninitialized.
C13_ResponseStatus ==
  /\ response.status \in {0, 200, 500}
  /\ response.status = 200 <=> ev.op = "responded"
  /\ response.status = 200
     => /\ isInitialized
        /\ InPhaseOrder(response.summary)
        /\ Len(response.summary) = Len(PhaseOrder)
  /\ response.status = 500
     => /\ response.summary = <<>>
        /\ ev.op \in {"init_failed", "unhandled"}
  /\ ev.op = "init_failed"
     => /\ ~isInitialized
        /\ response.status = 500
        /\ pc = "idle" /\ done = <<>>
  /\ ev.op = "unhandled" => isInitialized /\ response.status = 500

\* A 200 whose summary reports errors of the generation and of the initial
\* send.
C13_Witness ==
  /\ response.status = 200
  /\ response.summary[2].b > 0
  /\ response.summary[3].b > 0

\* All three credentials and settings are present.
ConfigComplete ==
  /\ env.SENDGRID_API_KEY_PATH
  /\ env.SENDGRID_FROM_EMAIL
  /\ env.PROXYCURL_API_KEY_PATH

\* C14: with a credential or setting missing, the invocation stops at
\* initialization: no phase is entered, so no query, no write and no
\* external call is made, and no summary is answered.
C14_IncompleteConfigAborts ==
  ~ConfigComplete
  => /\ pc = "idle"
     /\ ev.op \in {"none", "init_failed"}
     /\ response.status # 200

\* The retry bound the two modes are to respect.
ClaimedMaxRetries(mode) == IF mode = "template" THEN 3 ELSE 5

\* The answer is a rate limit, a server error or a network failure.
Transient(answer) == answer = 0 \/ answer = 429 \/ answer >= 500

\* C15: in both send modes a call makes at most maxRetries retries (3 in
\* template mode, 5 in raw mode) and at most maxRetries + 1 attempts, is
\* over once it has made that many, and fails on a rate limit, a server
\* error or a network failure only after its last retry.
C15_RetriesAreBounded ==
  sg.mode # "none"
  => /\ Len(sg.delays) <= ClaimedMaxRetries(sg.mode)
     /\ sg.attempts <= ClaimedMaxRetries(sg.mode) + 1
     /\ sg.attempts = ClaimedMaxRetries(sg.mode) + 1
        => sg.state \in {"sent", "failed"}
     /\ (sg.state = "failed" /\ sg.attempts > 0 /\ Transient(sg.last))
        => sg.attempts = ClaimedMaxRetries(sg.mode) + 1

\* A raw-mode call that failed for good on its sixth rate-limited attempt.
C15_Witness ==
  /\ sg.mode = "raw" /\ sg.state = "failed"
  /\ sg.attempts = 6 /\ sg.last = 429

\* C16: in both send modes a 400, 401 or 403 answer ends the call as a
\* failure at once: no retry follows it.
C16_ClientErrorsNotRetried ==
  (sg.mode # "none" /\ sg.last \in {400, 401, 403})
  => sg.state = "failed"

\* C17: in both send modes each retry waits strictly longer than the retry
\* before it.
C17_DelaysGrow ==
  \A n \in 1..(Len(sg.delays) - 1) : sg.delays[n + 1] > sg.delays[n]

\* The record the last step handled has a data error of its own: no
\* recipient address resolves, or its content is to come from a template
\* and none resolves.
DataError ==
  \/ /\ ev.op = "initial"
     /\ \/ ~HasRecipient(ev.doc)
        \/ /\ ~(ev.doc.aiInitialEmailTemplate = "true" /\ ev.doc.aiInitialEmail.present)
           /\ determineTemplateId(ev.doc, "initial") = NoTemplate
  \/ /\ ev.op = "followup" /\ ev.out.due
     /\ \/ ~HasRecipient(ev.doc)
        \/ determineTemplateId(ev.doc, "followup") = NoTemplate

\* C18: an Initial Send or Follow-up step on a record with a data error
\* sends nothing, issues an update that sets a failure status on the
\* record, adds one to the error counter of the phase, and leaves the loop
\* running for the remaining records.
C18_DataErrorsRecorded ==
  DataError
  => /\ ev.out.call = "none"
     /\ "outreachStatus" \in DOMAIN ev.out.payload
     /\ ev.out.payload.outreachStatus \in ErrorStatuses
     /\ stats = [a |-> ev.before.a, b |-> ev.before.b + 1]
     /\ ~ev.out.abort

\* C19: a phase step on a record whose stored outreachStatus is
\* moved_to_leads, unsubscribed or do_not_contact issues no update.
C19_TerminalRecordsFrozen ==
  ( /\ PhaseStep
    /\ ev.preDoc.outreachStatus \in {"moved_to_leads", "unsubscribed",
                                     "do_not_contact"} )
  => DOMAIN ev.written = {}

MatchesEnrichQuery(data) ==
  /\ data.enrichmentSuccess # Undefined /\ data.enrichmentSuccess # "true"
  /\ data.linkedinUrlFound = "true"

\* C21: in one run of the Enrichment phase the selected records are
\* pairwise distinct and each step passes the record at the loop position
\* to the Enrichment Client and moves on, so that the calls made equal the
\* records passed; a record whose enrichment failed, and every record that
\* carries the failure mark, satisfies the eligibility query of the phase.
C21_EnrichmentOncePerRun ==
  /\ pc = "enrich"
     => \A j \in 1..Len(batch) : \A k \in 1..Len(batch) :
          batch[j].id = batch[k].id => j = k
  /\ ev.op = "enrich"
     => /\ pc = "enrich"
        /\ idx >= 2 /\ idx <= Len(batch) + 1
        /\ batch[idx - 1].id = ev.doc.id
        /\ stats.a = idx - 1
        /\ ev.out.kind = "enrichment_failed"
           => MatchesEnrichQuery(store[ev.doc.id])
  /\ \A i \in Ids :
       (store[i].enrichmentSuccess = "false" /\ store[i].emailStatus = "lookup_failed")
       => MatchesEnrichQuery(store[i])

\* A run of the phase handles a record that an earlier run marked as
\* failed.
C21_Witness ==
  /\ ev.op = "enrich"
  /\ ev.doc.enrichmentSuccess = "false"
  /\ ev.doc.emailStatus = "lookup_failed"

\* The per-phase maxima of the queries.
PhaseMaxima ==
  {MAX_PROSPECTS_TO_ENRICH_PER_RUN, MAX_AI_EMAILS_PER_RUN,
   MAX_INITIAL_EMAILS_PER_RUN, 5 * MAX_FOLLOWUP_EMAILS_PER_RUN}

\* A snapshot of a limited query is never larger than the limit, however
\* many documents match.
SnapshotWithinLimit ==
  \A limit \in PhaseMaxima : \A matching \in 0..(5 * MAX_FOLLOWUP_EMAILS_PER_RUN + 1) :
    Min(matching, limit) <= limit

Resolved == ev.op = "determineTemplateId"

\* A template is configured for the email type under the key lang_region.
Configured(emailType, lang, region) ==
  /\ emailType \in {"initial", "followup"}
  /\ <<lang, region>> \in
       {<<"en", "US">>, <<"en", "CA">>, <<"fr", "CA">>, <<"fr", "FR">>,
        <<"fr", "BE">>, <<"fr", "CH">>, <<"fr", "general">>, <<"en", "general">>}

\* The id of the template configured under the key lang_region.
ConfiguredId(emailType, lang, region) ==
  <<"marketing_outreach", emailType, lang, region>>

\* The language the resolver is to use: the lower-cased language of the
\* document, "en" when the document has none.
ExpectedLang(data) ==
  IF data.language \in {Undefined, ""} THEN "en"
  ELSE IF data.language = "EN" THEN "en"
  ELSE IF data.language = "FR" THEN "fr"
  ELSE data.language

\* The region code of a country name, Null for a name that maps to none.
ExpectedRegion(country) ==
  CASE country = "United States" -> "US"
    [] country = "Canada" -> "CA"
    [] country \in {"France"} -> "FR"
    [] country \in {"Belgium", "Belgique"} -> "BE"
    [] country \in {"Switzerland", "Suisse"} -> "CH"
    [] country \in {"Germany", "Allemagne"} -> "DE"
    [] OTHER -> Null

\* C23: a call of the resolver returns the template configured for
\* lang_region when there is one, otherwise the template configured for
\* lang_general, otherwise null; for a country that maps to no region code
\* (absent, empty or unknown) it returns a value, the lang_general template
\* or null, and a document without a language is resolved as "en".
C23_ResolverFallback ==
  Resolved
  => LET emailType == ev.out.kind
         lang == ExpectedLang(ev.doc)
         region == ExpectedRegion(ev.doc.country)
         general == IF Configured(emailType, lang, "general")
                    THEN ConfiguredId(emailType, lang, "general")
                    ELSE NoTemplate
     IN  /\ ev.out.templateId =
              IF region # Null /\ Configured(emailType, lang, region)
              THEN ConfiguredId(emailType, lang, region)
              ELSE general
         /\ ev.doc.country \in {Undefined, "", "Atlantis"}
            => ev.out.templateId = general
         /\ (ev.doc.language = Undefined /\ emailType \in {"initial", "followup"})
            => /\ ev.out.templateId # NoTemplate
               /\ ev.out.templateId[3] = "en"

\* A document without a language and with an unknown country resolved to
\* the en_general follow-up template.
C23_Witness ==
  /\ Resolved
  /\ ev.doc.language = Undefined /\ ev.doc.country = "Atlantis"
  /\ ev.out.templateId = <<"marketing_outreach", "followup", "en", "general">>

\* C24: a call of the resolver for a document with language "fr" and
\* country "Switzerland" returns the fr_general template of the email type,
\* for the initial and for the followup type.
C24_SwissFrenchIsGeneral ==
  ( /\ Resolved
    /\ ev.doc.language = "fr" /\ ev.doc.country = "Switzerland"
    /\ ev.out.kind \in {"initial", "followup"} )
  => ev.out.templateId = <<"marketing_outreach", ev.out.kind, "fr", "general">>

\* The last step was a call of the adapter's update.
Updated == ev.op = "updateProspect"

\* C25: a call of the adapter's update with an id and a non-empty payload
\* issues one write whose fields are those of the payload plus
\* lastModifiedTimestamp, set to the time of the call whatever the payload
\* holds, and a write that goes through leaves the payload's values in the
\* record; a call with an empty payload or without an id issues no write
\* and leaves the record as it was.
C25_UpdateStampsModification ==
  Updated
  => LET payload == ev.out.payload
         id == ev.doc.id
     IN  /\ (id # 0 /\ DOMAIN payload # {})
            => /\ DOMAIN ev.written = DOMAIN payload \cup {"lastModifiedTimestamp"}
               /\ ev.written.lastModifiedTimestamp = clock
               /\ \A f \in DOMAIN payload \ {"lastModifiedTimestamp"} :
                    ev.written[f] = payload[f]
               /\ ev.applied
                  => \A f \in DOMAIN store[id] :
                       store[id][f] = IF f \in DOMAIN payload THEN payload[f]
                                      ELSE ev.preDoc[f]
         /\ (id = 0 \/ DOMAIN payload = {})
            => /\ DOMAIN ev.written = {}
               /\ ~ev.applied
               /\ id # 0 => RecordUntouched

\* A write of a failure status that went through on a later day.
C25_Witness ==
  /\ Updated /\ ev.applied
  /\ clock > 1
  /\ ev.written = [outreachStatus |-> "template_missing",
                   lastModifiedTimestamp |-> clock]
  /\ store[ev.doc.id].outreachStatus = "template_missing"

\* The document lacks one of the facts the prompt needs.
LacksFact(data) ==
  \/ data.firstName \in {Undefined, ""}
  \/ data.jobTitle \in {Undefined, ""}
  \/ data.companyName \in {Undefined, ""}
  \/ data.country \in {Undefined, ""}

\* C26: a Content Generation step on a record that lacks first name, job
\* title, company name or country does not call the generator; it issues
\* the update {aiInitialEmailTemplate false, aiGenerationError,
\* aiGenerationTimestamp}, adds one to the error counter and leaves the
\* loop on the next record.
C26_MissingFactsSkipped ==
  (ev.op = "ai" /\ LacksFact(ev.doc))
  => /\ ev.out.answer = "none"
     /\ DOMAIN ev.out.payload =
          {"aiInitialEmailTemplate", "aiGenerationError", "aiGenerationTimestamp"}
     /\ ev.out.payload.aiInitialEmailTemplate = "false"
     /\ ev.out.payload.aiGenerationError \notin {Undefined, ""}
     /\ ev.out.payload.aiGenerationTimestamp = clock
     /\ ev.applied => store[ev.doc.id].aiInitialEmailTemplate = "false"
     /\ stats = [a |-> ev.before.a, b |-> ev.before.b + 1]
     /\ ~ev.out.abort
     /\ pc = "ai" /\ batch[idx - 1].id = ev.doc.id

\* A record without a country was marked while a further record of the
\* batch is still to be handled.
C26_Witness ==
  /\ ev.op = "ai" /\ ev.doc.country = Undefined /\ ev.applied
  /\ ev.out.kind = "missing_fields"
  /\ idx <= Len(batch)

\* C30: a Content Generation step on a record with all its facts that does
\* not end with generated content (the generator call failed, answered
\* nothing, answered text that does not parse or fails the validation, or
\* the prompt could not be built) issues the generation-error update for
\* that record, and the loop goes on to the next record of the batch.
C30_GenerationFailureIsPerRecord ==
  (ev.op = "ai" /\ ~LacksFact(ev.doc) /\ ev.out.kind # "generated")
  => /\ DOMAIN ev.out.payload =
          {"aiInitialEmailTemplate", "aiGenerationError", "aiGenerationTimestamp"}
     /\ ev.out.payload.aiInitialEmailTemplate = "false"
     /\ ev.out.payload.aiGenerationError \notin {Undefined, ""}
     /\ ~ev.out.abort
     /\ pc = "ai" /\ idx <= Len(batch) + 1 /\ batch[idx - 1].id = ev.doc.id

\* C27: an Initial Send step on a record with a recipient, flagged for AI
\* content and holding a stored AI email with a non-empty subject and a
\* body of at least fifty characters, goes to the raw-content send and
\* writes no error status.
C27_UsableAiContentIsSentRaw ==
  ( /\ ev.op = "initial"
    /\ HasRecipient(ev.doc)
    /\ AiContentUsable(ev.doc) )
  => /\ ev.out.mode = "raw"
     /\ "outreachStatus" \in DOMAIN ev.out.payload
        => ev.out.payload.outreachStatus \notin ErrorStatuses

\* C28: an Initial Send step that calls the template-mode send hands it
\* the id the resolver returns for the record, which is not null.
C28_TemplateIdIsResolved ==
  ( /\ ev.op = "initial"
    /\ ev.out.call # "none"
    /\ ev.out.mode = "template" )
  => /\ ev.out.templateId = determineTemplateId(ev.doc, "initial")
     /\ ev.out.templateId # NoTemplate

\* The first non-empty of the verified work email, the generic email, the
\* personal email and the first entry of the personal email list; "" when
\* there is none.
FirstNonEmptyEmail(data) ==
  IF data.workEmail \notin {Undefined, ""} THEN data.workEmail
  ELSE IF data.email \notin {Undefined, ""} THEN data.email
  ELSE IF data.personalEmail \notin {Undefined, ""} THEN data.personalEmail
  ELSE IF data.personal_emails.defined THEN data.personal_emails.first
  ELSE ""

\* C29: an Initial Send step, and a Follow-up step on a due candidate,
\* resolve the recipient to the first non-empty of the four candidates in
\* that order, and to none, without an exception, when all are absent.
C29_RecipientByPriority ==
  ( \/ ev.op = "initial"
    \/ ev.op = "followup" /\ ev.out.due )
  => /\ recipientEmail(ev.doc) = FirstNonEmptyEmail(ev.doc)
     /\ ev.out.kind # TypeError
     /\ FirstNonEmptyEmail(ev.doc) = "" => ev.out.kind = "no_recipient"

\* The countries whose prospects are written to in French.
FrenchCountries == {"France", "Belgium", "Belgique", "Canada", "Switzerland"}

\* C31: a prompt built for a document without a language is written in the
\* language of the country (France, Belgium or Belgique, Canada and
\* Switzerland give French, every other country English); a language that
\* is present is the language of the prompt, "fr" giving French.
C31_PromptLanguageFromCountry ==
  ev.op = "buildVertexPrompt" =>
    ev.out.kind =
      IF Falsy(ev.doc.language)
      THEN IF ev.doc.country \in FrenchCountries THEN "French" ELSE "English"
      ELSE IF toLowerCase(ev.doc.language) = "fr" THEN "French"
      ELSE ev.doc.language

\* C37: within one invocation no record is sent more than one email: a
\* record Initial Send has sent to is not sent a follow-up by the same
\* invocation, and no record is sent two follow-ups in one run.
C37_OneEmailPerInvocation ==
  \A i \in DOMAIN store : log.sent[i] <= 1

\* The Follow-up phase examines a record this invocation has sent its
\* initial email and finds it not due.
C37_Witness ==
  /\ ev.op = "followup"
  /\ ev.doc.outreachStatus = OUTREACH_STATUS.SEQUENCE_STARTED
  /\ ev.doc.lastContactedTimestamp = now
  /\ log.sent[ev.doc.id] = 1
  /\ ev.out.kind = "not_due"

\* The statuses of a record the job has sent an email and may send another.
ContactedStatuses ==
  {OUTREACH_STATUS.SEQUENCE_STARTED, OUTREACH_STATUS.FOLLOWUP_1,
   OUTREACH_STATUS.FOLLOWUP_2}

\* C38: every record the job has moved to sequence_started, followup_1 or
\* followup_2 has its lastContactedTimestamp set; a successful send writes
\* a lastContactedTimestamp not earlier than the one before; and the
\* Follow-up phase never finds a record without the anchor of its due date.
C38_AdvancedRecordsHaveAnchor ==
  /\ \A i \in DOMAIN store :
       store[i].outreachStatus \in ContactedStatuses
         => store[i].lastContactedTimestamp # 0
  /\ (PhaseStep /\ ev.out.call = "ok")
       => /\ "lastContactedTimestamp" \in DOMAIN ev.out.payload
          /\ ev.out.payload.lastContactedTimestamp >= ev.preDoc.lastContactedTimestamp
          /\ ev.applied
               => store[ev.doc.id].lastContactedTimestamp
                    = ev.out.payload.lastContactedTimestamp
  /\ ev.op = "followup" => ev.doc.lastContactedTimestamp # 0

\* A follow-up is sent to a record contacted before, and its later time of
\* contact is stored.
C38_Witness ==
  /\ ev.op = "followup"
  /\ ev.out.call = "ok"
  /\ ev.applied
  /\ ev.preDoc.lastContactedTimestamp # 0
  /\ store[ev.doc.id].outreachStatus \in ContactedStatuses
  /\ store[ev.doc.id].lastContactedTimestamp > ev.preDoc.lastContactedTimestamp

\* A send phase delivered an email and the update that records it failed.
SentUnrecorded ==
  /\ ev.op \in {"initial", "followup"}
  /\ ev.out.call = "ok"
  /\ ~ev.applied

\* The record of the last step as it is stored now.
StoredNow == ProspectData(ev.doc.id, store[ev.doc.id])

\* C35: when the update after a successful send fails, the phase counts the
\* record as sent and goes on to the next one, the record keeps its
\* outreachStatus and lastContactedTimestamp, and it still matches the
\* query of the phase, whose iteration on it sends again.
C35_FailedUpdateAfterSendIsSwallowed ==
  SentUnrecorded =>
    /\ stats = [a |-> ev.before.a + 1, b |-> ev.before.b]
    /\ ~ev.out.abort
    /\ pc = ev.op /\ idx <= Len(batch) + 1 /\ batch[idx - 1].id = ev.doc.id
    /\ RecordUntouched
    /\ StoredNow.outreachStatus = ev.doc.outreachStatus
    /\ StoredNow.lastContactedTimestamp = ev.doc.lastContactedTimestamp
    /\ IF ev.op = "initial"
       THEN /\ \E k \in DOMAIN prospectsToSendQuery :
                 prospectsToSendQuery[k].id = ev.doc.id
            /\ InitialOutcome(StoredNow, TRUE).call = "ok"
       ELSE /\ \E k \in DOMAIN prospectsToCheckQuery :
                 prospectsToCheckQuery[k].id = ev.doc.id
            /\ FollowupOutcome(StoredNow, 0, TRUE).call = "ok"

\* A follow-up was delivered and its update failed, with another record
\* left for the loop.
C35_Witness ==
  /\ SentUnrecorded
  /\ ev.op = "followup"
  /\ ev.out.payload.outreachStatus = OUTREACH_STATUS.FOLLOWUP_1
  /\ idx = Len(batch)

\* C33: in one run of the Follow-up phase the number of delivery calls
\* issued, the failed ones included, is at most
\* MAX_FOLLOWUP_EMAILS_PER_RUN.
C33_DeliveryCallsWithinCap ==
  pc = "followup" => log.calls <= MAX_FOLLOWUP_EMAILS_PER_RUN

\* C32: when a record was moved to a manual terminal status after a send
\* phase fetched it and before the phase writes it, the write of the phase
\* leaves the manual status in place.
C32_ManualStatusSurvivesPhaseWrite ==
  ( /\ ev.op \in {"initial", "followup"}
    /\ ev.doc.outreachStatus \notin ManualStatuses
    /\ ev.preDoc.outreachStatus \in ManualStatuses )
  => store[ev.doc.id].outreachStatus = ev.preDoc.outreachStatus

\* C40: the clients are constructed at most once in a process: once
\* initialize() has succeeded every later invocation reuses them, and after
\* a failed initialize() the flag is false and the next invocation can
\* initialize successfully.
C40_FailedInitializationCanBeRetried ==
  /\ isInitialized => defaultApp
  /\ (pc = "idle" /\ ~isInitialized)
       => ENABLED (ProcessProspects /\ isInitialized')

\* C39: under repeated invocations every record that satisfies the
\* eligibility query of the Enrichment phase is eventually passed to the
\* Enrichment Client, whatever happens to the other records.
C39_EligibleRecordIsEventuallyEnriched ==
  \A i \in 1..LimitRecords :
    MatchesEnrichQuery(store[i]) ~> (ev.op = "enrich" /\ ev.doc.id = i)

\* Record i is follow-up-eligible (its status is a key of the interval
\* table and it is not flagged followupNotNeeded), due, and has a recipient
\* and a follow-up template.
FollowupOwed(i) ==
  /\ store[i].outreachStatus \in followupEligibleStatuses
  /\ store[i].followupNotNeeded # "true"
  /\ DueByRule(store[i].lastContactedTimestamp, store[i].outreachStatus, clock)
  /\ HasRecipient(store[i])
  /\ determineTemplateId(store[i], "followup") # NoTemplate

\* C34: under repeated invocations in which delivery succeeds, every
\* record that is follow-up-eligible, due, and has a recipient and a
\* template is eventually sent its follow-up.
C34_DueFollowupIsEventuallySent ==
  [](ev.out.call # "fail")
    => \A i \in Ids :
         FollowupOwed(i)
           ~> (ev.op = "followup" /\ ev.doc.id = i /\ ev.out.call = "ok")

\* The Initial Send loops of both invocations are over.
BothFinished ==
  /\ other.pc = "done"
  /\ pc = "initial" /\ LoopDone

\* Both invocations delivered the initial email to record i: the only
\* emails an invocation has sent when its Initial Send loop ends.
SentByBoth(i) == log.sent[i] >= 1 /\ i \in other.sent

====
